---- MODULE Spec2Model ----
(***************************************************************************)
(* A model of silva: the canonical tree / forest ensemble with its         *)
(* prediction algorithm (tree.rs, forest.rs) and the two importers         *)
(* (parser/xgboost.rs, parser/lightgbm.rs).                                *)
(*                                                                         *)
(* One behaviour is one run of the library: from the idle state a caller   *)
(* starts one operation (a tree prediction, a forest prediction, a parse   *)
(* of a base score, an import); an import that succeeds leaves a model on  *)
(* which the caller then predicts, row after row.                          *)
(***************************************************************************)
EXTENDS Integers, Sequences, FiniteSets, TLC

VARIABLES call, model

vars == <<call, model>>

(***************************************************************************)
(* Bounds of the model.                                                    *)
(***************************************************************************)
\* f64 is modelled with SigBits significant bits instead of 53
SigBits == 3
\* feature vectors have at most NumFeatures entries
NumFeatures == 2
\* finite feature values range over 0..MaxVal
MaxVal == 2
\* a forest built directly has at most MaxForestTrees trees
MaxForestTrees == 3
\* a base_score string has at most MaxPieces comma-separated pieces
MaxPieces == 3
\* an XGBoost document has at most MaxTrees trees and as many tree_info tags
MaxTrees == 2
\* the tags of tree_info range over 0..MaxTag
MaxTag == 2
\* NumThreads callers predict at the same time on one model
NumThreads == 2
\* a LightGBM file has at most MaxSections Tree= sections
MaxSections == 4
\* num_tree_per_iteration, when it is a number, is in 0..MaxPerIter
MaxPerIter == 2

(***************************************************************************)
(* f64.  A value is NaN, an infinity or a finite number; a finite number   *)
(* is an integer v that counts tenths (v = 5 is 0.5).  Addition rounds     *)
(* its exact result to SigBits significant bits, ties to even, as IEEE     *)
(* addition does with 53 bits, so that it is commutative and not           *)
(* associative.                                                            *)
(***************************************************************************)
F(n) == [k |-> "fin", v |-> n]
NaN == [k |-> "nan", v |-> 0]
PInf == [k |-> "inf", v |-> 1]
NInf == [k |-> "inf", v |-> -1]

IsNaN(a) == a.k = "nan"

Abs(n) == IF n < 0 THEN -n ELSE n

RECURSIVE Pow2(_)
Pow2(e) == IF e = 0 THEN 1 ELSE 2 * Pow2(e - 1)

\* the unit in the last place of a magnitude m: the least power of two u
\* with m < u * 2^SigBits
RECURSIVE UlpFrom(_, _)
UlpFrom(m, u) == IF m < u * Pow2(SigBits) THEN u ELSE UlpFrom(m, 2 * u)

FRound(n) ==
    LET m == Abs(n)
        u == UlpFrom(m, 1)
        q == m \div u
        r == m % u
        up == (2 * r > u) \/ (2 * r = u /\ q % 2 = 1)
        mag == (IF up THEN q + 1 ELSE q) * u
    IN  IF n < 0 THEN -mag ELSE mag

\* a + b on f64
FAdd(a, b) ==
    IF IsNaN(a) \/ IsNaN(b) THEN NaN
    ELSE IF a.k = "inf" /\ b.k = "inf" THEN (IF a.v = b.v THEN a ELSE NaN)
    ELSE IF a.k = "inf" THEN a
    ELSE IF b.k = "inf" THEN b
    ELSE F(FRound(a.v + b.v))

\* a < b on NotNan<f64>
FLt(a, b) ==
    IF a.k = "inf" /\ b.k = "inf" THEN a.v < b.v
    ELSE IF a.k = "inf" THEN a.v < 0
    ELSE IF b.k = "inf" THEN b.v > 0
    ELSE a.v < b.v

(***************************************************************************)
(* Option<T>: None is the empty sequence, Some(v) the sequence <<v>>.      *)
(***************************************************************************)
None == <<>>
Some(v) == <<v>>
IsSome(o) == o # <<>>
\* the element of a one-element set
The(S) == CHOOSE y \in S : TRUE
Unwrap(o) == o[1]

(***************************************************************************)
(* The outcome of a call: a returned value (v), a typed error returned to  *)
(* the caller (e), a panic (the thread aborts), or a loop that never ends. *)
(***************************************************************************)
Out(st, v, e, why) == [st |-> st, v |-> v, e |-> e, why |-> why]
Ok(v) == Out("ok", <<v>>, <<>>, "")
Err(e) == Out("err", <<>>, <<e>>, "")
Panic(why) == Out("panic", <<>>, <<>>, why)
Hang == Out("hang", <<>>, <<>>, "endless loop")
Running == Out("run", <<>>, <<>>, "")
\* the loop of Tree::predict goes on at node n
Go(n) == Out("go", <<n>>, <<>>, "")
\* the value an Ok outcome returns, the error an Err outcome returns
Val(o) == o.v[1]
ErrOf(o) == o.e[1]

(***************************************************************************)
(* TreeNode and Tree (tree.rs).  The node map is an IndexMap: a sequence   *)
(* of nodes in insertion order, at most one per key.                       *)
(***************************************************************************)
TreeNode(id, si, sc, l, r, v) ==
    [id |-> id, split_index |-> si, split_condition |-> sc,
     left |-> l, right |-> r, value |-> v]

is_leaf(node) == node.left = None /\ node.right = None

get_value(node) == node.value

\* IndexMap::get
MapGet(node_map, id) ==
    IF \E i \in 1..Len(node_map) : node_map[i].id = id
    THEN Some(node_map[CHOOSE i \in 1..Len(node_map) : node_map[i].id = id])
    ELSE None

MapKeys(node_map) == {node_map[i].id : i \in 1..Len(node_map)}

TreeNew(node_map, root) == [node_map |-> node_map, root |-> root]

\* x[i] on a slice (0-based); None stands for the index-out-of-bounds panic
SliceGet(x, i) == IF i + 1 \in 1..Len(x) THEN Some(x[i + 1]) ELSE None

\* the branch taken with <= where the code has <
ChooseChildLe(node, feature) ==
    IF ~FLt(node.split_condition, feature) THEN node.left ELSE node.right

\* tree.rs:55-59, the branch taken at a split
ChooseChild(node, feature) ==
    IF FLt(feature, node.split_condition) THEN node.left ELSE node.right

\* tree.rs:52, entering the loop: the root's node
PredictEnter(T) ==
    LET r == MapGet(T.node_map, T.root)
    IN  IF IsSome(r) THEN Ok(Unwrap(r)) ELSE Panic("unwrap on None")

\* the loop without its `node = next_node`
PredictIterStuck(T, x, node) ==
    IF is_leaf(node) THEN Ok(get_value(node))
    ELSE Go(node)

\* tree.rs:53-64, one turn of the loop at `node`: the value of a leaf
\* (st "ok"), the next node (st "go") or a panic
PredictIter(T, x, node) ==
    IF is_leaf(node) THEN Ok(get_value(node))
    ELSE LET raw == SliceGet(x, node.split_index)
         IN  IF ~IsSome(raw) THEN Panic("index out of bounds")
             ELSE IF IsNaN(Unwrap(raw)) THEN Panic("unwrap on Err(FloatIsNan)")
             ELSE LET child == ChooseChild(node, Unwrap(raw))
                      next == IF IsSome(child)
                              THEN MapGet(T.node_map, Unwrap(child))
                              ELSE None
                  IN  IF IsSome(next)
                      THEN Go(Unwrap(next))
                      ELSE Panic("unwrap on None")

\* Tree::predict as a function: the loop run from `node` for at most `fuel`
\* turns; a walk that outlasts every node of the map never ends
RECURSIVE PredictFrom(_, _, _, _)
PredictFrom(T, x, node, fuel) ==
    LET s == PredictIter(T, x, node)
    IN  IF s.st # "go" THEN s
        ELSE IF fuel = 0 THEN Hang
        ELSE PredictFrom(T, x, Val(s), fuel - 1)

TreePredict(T, x) ==
    LET e == PredictEnter(T)
    IN  IF e.st # "ok" THEN e
        ELSE PredictFrom(T, x, Val(e), Len(T.node_map))

(***************************************************************************)
(* Forest (forest.rs).                                                     *)
(***************************************************************************)
ForestNew(base_value, trees) == [base_value |-> base_value, trees |-> trees]

\* Iterator::sum::<f64>(): the fold of + from 0.0, first element first
RECURSIVE FSumFrom(_, _)
FSumFrom(acc, s) ==
    IF s = <<>> THEN acc ELSE FSumFrom(FAdd(acc, Head(s)), Tail(s))

FSum(s) == FSumFrom(F(0), s)

\* the trees' values accumulated onto the base value, one after the other
AddOntoBase(base_value, predictions) == FSumFrom(base_value, predictions)

\* forest.rs:24
AddBase(base_value, predictions) == FAdd(base_value, FSum(predictions))

\* NotNan::new(v).unwrap()
NotNanNew(v) == IF IsNaN(v) THEN Panic("unwrap on Err(FloatIsNan)") ELSE Ok(v)

Min(S) == CHOOSE n \in S : \A m \in S : n <= m

\* Forest::predict: the trees are evaluated in order, and the first one
\* that does not return ends the call
ForestPredict(forest, x) ==
    LET outs == [i \in 1..Len(forest.trees) |->
                    TreePredict(forest.trees[i], x)]
        bad == {i \in 1..Len(outs) : outs[i].st # "ok"}
        predictions == [i \in 1..Len(outs) |-> Val(outs[i])]
    IN  IF bad # {} THEN outs[Min(bad)]
        ELSE NotNanNew(AddBase(forest.base_value, predictions))

(***************************************************************************)
(* MultiOutputForest.  Its definition is not among the sources; it is      *)
(* modelled from spec.md, section 4.1: predict maps Forest::predict over   *)
(* the forests in their order.                                             *)
(***************************************************************************)
\* the forests' values, last forest first
MultiValuesReversed(outs) ==
    [k \in 1..Len(outs) |-> Val(outs[Len(outs) + 1 - k])]

MultiValues(outs) == [k \in 1..Len(outs) |-> Val(outs[k])]

MultiPredict(forests, x) ==
    LET outs == [k \in 1..Len(forests) |-> ForestPredict(forests[k], x)]
        bad == {k \in 1..Len(outs) : outs[k].st # "ok"}
    IN  IF bad # {} THEN outs[Min(bad)] ELSE Ok(MultiValues(outs))

(***************************************************************************)
(* Strings (parser/xgboost.rs, base_score).  A string is a sequence of     *)
(* symbols: the characters `[`, `]` and `,`, and runs of other characters. *)
(* A run is a float literal (lit, with the f64 that str::parse gives for   *)
(* it) or text that is no float (junk).  Two runs are never adjacent: they *)
(* would be one run.                                                       *)
(***************************************************************************)
Sym(c, f) == [c |-> c, f |-> f]
LB == Sym("[", F(0))
RB == Sym("]", F(0))
Comma == Sym(",", F(0))
Lit(f) == Sym("lit", f)
Junk == Sym("junk", F(0))

IsBracket(c) == c.c \in {"[", "]"}

\* str::trim_matches(&['[', ']'])
RECURSIVE TrimStart(_)
TrimStart(s) ==
    IF s # <<>> /\ IsBracket(Head(s)) THEN TrimStart(Tail(s)) ELSE s

RECURSIVE TrimEnd(_)
TrimEnd(s) ==
    IF s # <<>> /\ IsBracket(s[Len(s)])
    THEN TrimEnd(SubSeq(s, 1, Len(s) - 1))
    ELSE s

TrimMatches(s) == TrimEnd(TrimStart(s))

\* str::split(','): the pieces between the commas, at least one
RECURSIVE SplitFrom(_, _)
SplitFrom(s, piece) ==
    IF s = <<>> THEN <<piece>>
    ELSE IF Head(s) = Comma THEN <<piece>> \o SplitFrom(Tail(s), <<>>)
    ELSE SplitFrom(Tail(s), Append(piece, Head(s)))

SplitComma(s) == SplitFrom(s, <<>>)

\* str::parse::<f64>(): a piece is a float when it is one literal
ParseF64(piece) ==
    IF Len(piece) = 1 /\ piece[1].c = "lit"
    THEN Ok(piece[1].f)
    ELSE Err("ParseFloatError")

\* the error that carries the element that failed, not the string
ElementAsError(s, piece) == piece

\* xgboost.rs:263, map_err(|_| s.to_string()): the error of an element x
RawAsError(s, piece) == s

\* xgboost.rs:259-265; collect() stops at the first element that fails
parse_base_score(s) ==
    LET pieces == SplitComma(TrimMatches(s))
        outs == [i \in 1..Len(pieces) |-> ParseF64(pieces[i])]
        bad == {i \in 1..Len(outs) : outs[i].st # "ok"}
    IN  IF bad # {}
        THEN Err(RawAsError(s, pieces[Min(bad)]))
        ELSE Ok([i \in 1..Len(outs) |-> Val(outs[i])])

(***************************************************************************)
(* Tree::from_nodes (tree.rs:43-49).                                       *)
(***************************************************************************)
\* nodes.sort_by_key(|node| node.id): a stable sort
RECURSIVE InsertById(_, _)
InsertById(sorted, node) ==
    IF sorted = <<>> THEN <<node>>
    ELSE IF sorted[Len(sorted)].id <= node.id THEN Append(sorted, node)
    ELSE Append(InsertById(SubSeq(sorted, 1, Len(sorted) - 1), node),
                sorted[Len(sorted)])

RECURSIVE SortById(_)
SortById(nodes) ==
    IF nodes = <<>> THEN <<>>
    ELSE InsertById(SortById(SubSeq(nodes, 1, Len(nodes) - 1)),
                    nodes[Len(nodes)])

\* collect() into an IndexMap: a key seen again keeps its place and takes
\* the later node
RECURSIVE CollectMap(_, _)
CollectMap(node_map, nodes) ==
    IF nodes = <<>> THEN node_map
    ELSE LET n == Head(nodes)
             at == {i \in 1..Len(node_map) : node_map[i].id = n.id}
         IN  CollectMap(IF at = {} THEN Append(node_map, n)
                        ELSE [node_map EXCEPT ![Min(at)] = n],
                        Tail(nodes))

from_nodes(nodes) ==
    LET sorted == SortById(nodes)
    IN  IF sorted = <<>> THEN Panic("index out of bounds")
        ELSE Ok(TreeNew(CollectMap(<<>>, sorted), sorted[1].id))

(***************************************************************************)
(* The XGBoost importer (parser/xgboost.rs).                               *)
(***************************************************************************)
\* i32 as usize: a negative number wraps around 2^64, for which Wrap stands
\* (an index beyond every vector)
Wrap == Pow2(30)
AsUsize(n) == IF n < 0 THEN Wrap + n ELSE n

\* a child entry of zero or more is a child
ChildOfGe(c) == IF c >= 0 THEN Some(AsUsize(c)) ELSE None

\* xgboost.rs:117-122: a child entry above zero is a child
ChildOf(c) == IF c > 0 THEN Some(AsUsize(c)) ELSE None

SeqMin(lens) == Min({lens[i] : i \in 1..Len(lens)})

\* TreeRecord::parse, xgboost.rs:101-133.  izip! stops with the shortest of
\* its five arrays.
TreeRecordParse(rec) ==
    LET n == SeqMin(<<Len(rec.base_weights), Len(rec.left_children),
                      Len(rec.right_children), Len(rec.split_indices),
                      Len(rec.split_conditions)>>)
        nan == {i \in 1..n : IsNaN(rec.split_conditions[i])}
        nodes == [i \in 1..n |->
                    TreeNode(i - 1, AsUsize(rec.split_indices[i]),
                             rec.split_conditions[i],
                             ChildOf(rec.left_children[i]),
                             ChildOf(rec.right_children[i]),
                             rec.split_conditions[i])]
    IN  IF nan # {} THEN Panic("unwrap on Err(FloatIsNan)")
        ELSE from_nodes(nodes)

\* GbtreeModelRecord::parse, xgboost.rs:67-73: the trees in order; the first
\* that panics ends the call
GbtreeParse(gbtree) ==
    LET outs == [i \in 1..Len(gbtree.trees) |-> TreeRecordParse(gbtree.trees[i])]
        bad == {i \in 1..Len(outs) : outs[i].st # "ok"}
    IN  IF bad # {} THEN outs[Min(bad)]
        ELSE Ok([trees |-> [i \in 1..Len(outs) |-> Val(outs[i])],
                 tree_info |-> gbtree.tree_info])

\* Objective::from, xgboost.rs:171-181
ObjectiveFrom(name) ==
    CASE name = "reg:squarederror" -> "RegSquaredError"
      [] name = "binary:logistic" -> "BinaryLogistic"
      [] name = "multi:softmax" -> "MultiSoftmax"
      [] name = "multi:softprob" -> "MultiSoftprob"
      [] OTHER -> "Unknown"

\* xgboost.rs:213-218
SupportedObjectives ==
    <<"reg:squarederror", "binary:logistic", "multi:softmax", "multi:softprob">>

\* ln(p / (1 - p)) on tenths, for p in 0.1 .. 0.9, rounded to a tenth
LogitTenths == <<-22, -14, -8, -4, 0, 4, 8, 14, 22>>

\* logit, xgboost.rs:188-190: p / (1 - p) is negative outside [0, 1] and
\* its logarithm NaN; it is 0 at 0 and infinite at 1
logit(p) ==
    IF p.k # "fin" THEN NaN
    ELSE IF p.v < 0 \/ p.v > 10 THEN NaN
    ELSE IF p.v = 0 THEN NInf
    ELSE IF p.v = 10 THEN PInf
    ELSE F(FRound(LogitTenths[p.v]))

\* the score used as it is, whatever the objective
BaseValueUnchanged(objective, score) == score

\* xgboost.rs:234-239
BaseValueOf(objective, score) ==
    IF objective = "BinaryLogistic" THEN logit(score) ELSE score

\* the messages of the two errors that name what is supported,
\* xgboost.rs:13-19, as the pieces they are made of
ErrorMessage(e) ==
    CASE e.kind = "UnsupportedBooster" ->
            <<"Unsupported booster type: ", e.booster, ". Only '", "gbtree",
              "' is supported">>
      [] e.kind = "UnsupportedObjective" ->
            <<"Unsupported objective function: ", e.objective,
              ". Supported objectives: ">> \o e.supported

Contains(msg, piece) == \E i \in 1..Len(msg) : msg[i] = piece

\* the name of a booster that is no gbtree, as the error gives it
BoosterError(name) ==
    Err([kind |-> "UnsupportedBooster", booster |-> name])

\* xgboost.rs:222-227: the trees of each class, in their order
TreeGroups(trees, tree_info, n_classes) ==
    LET n == IF Len(trees) < Len(tree_info) THEN Len(trees) ELSE Len(tree_info)
    IN  [k \in 1..n_classes |->
            LET at == {i \in 1..n : tree_info[i] = k - 1}
                pick(i) == i \in at
                idx == SelectSeq([i \in 1..n |-> i], pick)
            IN  [j \in 1..Len(idx) |-> trees[idx[j]]]]

\* xgboost.rs:245-249: zip stops with the shorter of the two
ZipForests(tree_groups, base_values) ==
    LET n == IF Len(tree_groups) < Len(base_values)
             THEN Len(tree_groups) ELSE Len(base_values)
    IN  [k \in 1..n |-> ForestNew(base_values[k], tree_groups[k])]

\* MultiOutputForest::new
MultiNew(forests) == forests

\* the base values left as they were parsed
KeepBaseValues(base_values, n_classes) == base_values

\* xgboost.rs:241-243: a single base value is repeated for every class
Broadcast(base_values, n_classes) ==
    IF Len(base_values) = 1 /\ n_classes > 1
    THEN [k \in 1..n_classes |-> base_values[1]]
    ELSE base_values

\* parse_xgboost_model after the booster and the objective are accepted:
\* xgboost.rs:222-251
GroupAndBase(parsed, objective, base_score) ==
    IF parsed.tree_info = <<>> THEN Panic("unwrap on None")
    ELSE LET n_classes ==
                 1 + CHOOSE m \in {parsed.tree_info[i] : i \in 1..Len(parsed.tree_info)} :
                        \A i \in 1..Len(parsed.tree_info) : parsed.tree_info[i] <= m
             tree_groups == TreeGroups(parsed.trees, parsed.tree_info, n_classes)
             scores == parse_base_score(base_score)
         IN  IF scores.st # "ok"
             THEN Err([kind |-> "InvalidBaseScore", value |-> ErrOf(scores)])
             ELSE LET parsed_values ==
                          [i \in 1..Len(Val(scores)) |->
                              BaseValueOf(objective, Val(scores)[i])]
                      base_values == Broadcast(parsed_values, n_classes)
                  IN  Ok(MultiNew(ZipForests(tree_groups, base_values)))

\* the match that also accepts the gbtree a dart booster wraps
MatchBoosterThroughDart(booster) ==
    IF booster.name = "gblinear" THEN BoosterError("gblinear")
    ELSE IF booster.name = "dart" THEN GbtreeParse(booster.gbtree.model)
    ELSE GbtreeParse(booster.model)

\* xgboost.rs:193-205
MatchBooster(booster) ==
    IF booster.name = "gblinear" THEN BoosterError("gblinear")
    ELSE IF booster.name = "dart" THEN BoosterError("dart")
    ELSE GbtreeParse(booster.model)

\* parse_xgboost_model, xgboost.rs:192-252
parse_xgboost_model(record) ==
    LET parsed == MatchBooster(record.learner.gradient_booster)
        objective == ObjectiveFrom(record.learner.objective.name)
    IN  IF parsed.st # "ok" THEN parsed
        ELSE IF objective = "Unknown"
        THEN Err([kind |-> "UnsupportedObjective",
                  objective |-> record.learner.objective.name,
                  supported |-> SupportedObjectives])
        ELSE GroupAndBase(Val(parsed), objective,
                          record.learner.learner_model_param.base_score)

(***************************************************************************)
(* The LightGBM importer (parser/lightgbm.rs).  A file is its lines; a     *)
(* line is blank, a `Tree=` header, `key=value`, or text without `=`.  A   *)
(* value is a sequence of whitespace-separated tokens: an integer, a       *)
(* float literal that is no integer, or text that is no number.            *)
(***************************************************************************)
Line(t, key, val) == [t |-> t, key |-> key, val |-> val]
BlankLine == Line("blank", "", <<>>)
TreeLine == Line("tree", "Tree", <<>>)
KV(key, val) == Line("kv", key, val)

Tok(k, n, f) == [k |-> k, n |-> n, f |-> f]
IntTok(n) == Tok("int", n, F(0))
FloatTok(f) == Tok("float", 0, f)
JunkTok == Tok("junk", 0, F(0))

\* str::parse::<usize>(), ::<i32>(), ::<f64>() on a token
ParseUsize(tok) == IF tok.k = "int" /\ tok.n >= 0 THEN Some(tok.n) ELSE None
ParseI32(tok) == IF tok.k = "int" THEN Some(tok.n) ELSE None
ParseFloatTok(tok) ==
    IF tok.k = "float" THEN Some(tok.f)
    ELSE IF tok.k = "int" THEN Some(F(10 * tok.n))
    ELSE None

\* split_whitespace().map(|s| s.parse().ok()).collect::<Option<Vec<_>>>()
ParseArray(val, key) ==
    LET parse(tok) == CASE key = "split_feature" -> ParseUsize(tok)
                        [] key \in {"left_child", "right_child"} -> ParseI32(tok)
                        [] OTHER -> ParseFloatTok(tok)
    IN  IF \E i \in 1..Len(val) : parse(val[i]) = None
        THEN None
        ELSE Some([i \in 1..Len(val) |-> Unwrap(parse(val[i]))])

Directives ==
    {"split_feature", "threshold", "left_child", "right_child", "leaf_value"}

NoArrays == [d \in Directives |-> None]

\* lightgbm.rs:187-193
RecordOf(arrays) ==
    IF \E d \in Directives : arrays[d] = None THEN None
    ELSE Some([split_features |-> Unwrap(arrays["split_feature"]),
               thresholds |-> Unwrap(arrays["threshold"]),
               left_children |-> Unwrap(arrays["left_child"]),
               right_children |-> Unwrap(arrays["right_child"]),
               leaf_values |-> Unwrap(arrays["leaf_value"])])

\* the loop of parse_tree_section from line idx (1-based) on:
\* lightgbm.rs:131-185
RECURSIVE ScanSection(_, _, _)
ScanSection(lines, idx, arrays) ==
    IF idx > Len(lines) \/ lines[idx].t \in {"blank", "tree"}
    THEN RecordOf(arrays)
    ELSE LET line == lines[idx]
             known == line.t = "kv" /\ line.key \in Directives
             a == IF known THEN ParseArray(line.val, line.key) ELSE None
         IN  IF known /\ a = None THEN None
             ELSE ScanSection(lines, idx + 1,
                     IF known THEN [arrays EXCEPT ![line.key] = a] ELSE arrays)

\* parse_tree_section, lightgbm.rs:122-194
parse_tree_section(lines, start_idx) ==
    ScanSection(lines, start_idx + 1, NoArrays)

\* value.parse::<usize>() of num_tree_per_iteration, lightgbm.rs:103
ParseCount(val) ==
    IF Len(val) = 1 /\ ParseUsize(val[1]) # None
    THEN Ok(Unwrap(ParseUsize(val[1])))
    ELSE Err([kind |-> "ParseIntError"])

\* the loop of read_lightgbm_txt from line idx on, lightgbm.rs:89-105:
\* the count and the records found, or the error of the count's parse
RECURSIVE ScanLines(_, _, _, _)
ScanLines(lines, idx, count, records) ==
    IF idx > Len(lines) THEN Ok([count |-> count, records |-> records])
    ELSE LET line == lines[idx]
             r == IF line.t = "tree" THEN parse_tree_section(lines, idx) ELSE None
             n == IF line.t = "kv" /\ line.key = "num_tree_per_iteration"
                  THEN ParseCount(line.val) ELSE Ok(0)
         IN  IF n.st # "ok" THEN n
             ELSE ScanLines(lines, idx + 1,
                     IF line.t = "kv" /\ line.key = "num_tree_per_iteration"
                     THEN Some(Val(n)) ELSE count,
                     IF r # None THEN Append(records, Unwrap(r)) ELSE records)

\* lightgbm.rs:110-117
GroupRecords(tree_records, num_trees) ==
    LET num_iterations == Len(tree_records) \div num_trees
    IN  [j \in 1..num_trees |->
            [i \in 1..num_iterations |->
                tree_records[(i - 1) * num_trees + j]]]

\* the end of read_lightgbm_txt with a count of 1 where the header gives none
AfterScanDefaultOne(scan) ==
    IF scan.st # "ok" THEN scan
    ELSE IF Val(scan).count = None
    THEN Ok(GroupRecords(Val(scan).records, 1))
    ELSE IF Unwrap(Val(scan).count) = 0
    THEN Panic("attempt to divide by zero")
    ELSE Ok(GroupRecords(Val(scan).records, Unwrap(Val(scan).count)))

\* lightgbm.rs:107-119: what read_lightgbm_txt returns after its loop
AfterScan(scan) ==
    IF scan.st # "ok" THEN scan
    ELSE IF Val(scan).count = None
    THEN Err([kind |-> "num_tree_per_iteration not found in header"])
    ELSE IF Unwrap(Val(scan).count) = 0
    THEN Panic("attempt to divide by zero")
    ELSE Ok(GroupRecords(Val(scan).records, Unwrap(Val(scan).count)))

\* read_lightgbm_txt, lightgbm.rs:82-120
read_lightgbm_txt(lines) ==
    The({AfterScan(scan) : scan \in {ScanLines(lines, 1, None, <<>>)}})

\* a leaf reference that counts leaves from 1 past the internal nodes
LgbmChildFromOne(c, num_internal) ==
    IF c >= 0 THEN Some(c) ELSE Some(num_internal + (-c))

\* lightgbm.rs:48-59: the node id of a child reference
LgbmChild(c, num_internal) ==
    IF c >= 0 THEN Some(c) ELSE Some(num_internal + ((-c) - 1))

\* Tree::from(LGBMTreeRecord), lightgbm.rs:32-80
TreeFromRecord(record) ==
    LET num_internal == Len(record.split_features)
        short == \E i \in 1..num_internal :
                    \/ i > Len(record.left_children)
                    \/ i > Len(record.right_children)
                    \/ i > Len(record.thresholds)
        firstShort == Min({i \in 1..num_internal :
                              \/ i > Len(record.left_children)
                              \/ i > Len(record.right_children)
                              \/ i > Len(record.thresholds)} \cup {num_internal + 1})
        nanAt == {i \in 1..num_internal :
                     i <= Len(record.thresholds) /\ IsNaN(record.thresholds[i])}
        firstNaN == Min(nanAt \cup {num_internal + 1})
        nanLeaf == \E j \in 1..Len(record.leaf_values) : IsNaN(record.leaf_values[j])
        internal == [i \in 1..num_internal |->
                        TreeNode(i - 1, record.split_features[i],
                                 record.thresholds[i],
                                 LgbmChild(record.left_children[i], num_internal),
                                 LgbmChild(record.right_children[i], num_internal),
                                 F(0))]
        leaves == [j \in 1..Len(record.leaf_values) |->
                      TreeNode(num_internal + j - 1, 0, F(0), None, None,
                               record.leaf_values[j])]
    IN  IF short /\ firstShort <= firstNaN THEN Panic("index out of bounds")
        ELSE IF nanAt # {} THEN Panic("unwrap on Err(FloatIsNan)")
        ELSE IF nanLeaf THEN Panic("unwrap on Err(FloatIsNan)")
        ELSE from_nodes(internal \o leaves)

\* lightgbm.rs:12-20: the forests of the grouped records, Forest::new(0.0, _)
ForestsOfRecords(txt) ==
    IF txt.st # "ok" THEN txt
    ELSE LET groups == Val(txt)
             bad == {j \in 1..Len(groups) :
                        \E i \in 1..Len(groups[j]) :
                            TreeFromRecord(groups[j][i]).st # "ok"}
         IN  IF bad # {}
             THEN LET j == Min(bad)
                  IN  TreeFromRecord(groups[j][
                          Min({i \in 1..Len(groups[j]) :
                                  TreeFromRecord(groups[j][i]).st # "ok"})])
             ELSE Ok(MultiNew([j \in 1..Len(groups) |->
                        ForestNew(F(0),
                            [i \in 1..Len(groups[j]) |->
                                Val(TreeFromRecord(groups[j][i]))])]))

\* read_lightgbm_model, lightgbm.rs:10-21
read_lightgbm_model(lines) ==
    The({ForestsOfRecords(txt) : txt \in {read_lightgbm_txt(lines)}})

(***************************************************************************)
(* Inputs: trees and feature vectors.                                      *)
(***************************************************************************)
LeafNode(id, v) == TreeNode(id, 0, F(0), None, None, F(v))
SplitNode(id, si, sc, l, r) == TreeNode(id, si, F(sc), l, r, F(0))

FeatureIdx == 0..(NumFeatures - 1)
Thresholds == 1..MaxVal

\* a single leaf
LeafTrees == {TreeNew(<<LeafNode(0, v)>>, 0) : v \in 1..2}

\* a root with two leaves
StumpTrees ==
    {TreeNew(<<SplitNode(0, si, sc, Some(1), Some(2)),
               LeafNode(1, 1), LeafNode(2, 2)>>, 0) :
        si \in FeatureIdx, sc \in Thresholds}

\* a root (threshold 1) whose left (resp. right) child splits again
DeepTrees ==
    {TreeNew(<<SplitNode(0, p[1], 1, Some(1), Some(2)),
               SplitNode(1, p[2], p[3], Some(3), Some(4)),
               LeafNode(2, 2), LeafNode(3, 3), LeafNode(4, 4)>>, 0) :
        p \in FeatureIdx \X FeatureIdx \X Thresholds}
    \cup
    {TreeNew(<<SplitNode(0, p[1], 1, Some(1), Some(2)),
               LeafNode(1, 1),
               SplitNode(2, p[2], p[3], Some(3), Some(4)),
               LeafNode(3, 3), LeafNode(4, 4)>>, 0) :
        p \in FeatureIdx \X FeatureIdx \X Thresholds}

\* what Tree::new also accepts: a child id that is no key, a node with one
\* child, a cycle, a root that is no key, an empty map
BrokenTrees ==
    {TreeNew(<<SplitNode(0, 0, 1, Some(1), Some(7)), LeafNode(1, 1)>>, 0),
     TreeNew(<<SplitNode(0, 0, 1, Some(7), Some(1)), LeafNode(1, 1)>>, 0),
     TreeNew(<<SplitNode(0, 0, 1, None, Some(1)), LeafNode(1, 1)>>, 0),
     TreeNew(<<SplitNode(0, 0, 1, Some(1), None), LeafNode(1, 1)>>, 0),
     TreeNew(<<SplitNode(0, 0, 1, Some(1), Some(2)),
               SplitNode(1, 1, 1, Some(0), Some(2)), LeafNode(2, 2)>>, 0),
     TreeNew(<<SplitNode(0, 1, 2, Some(0), Some(1)), LeafNode(1, 1)>>, 0),
     TreeNew(<<LeafNode(0, 1)>>, 3),
     TreeNew(<<>>, 0)}

Trees == LeafTrees \cup StumpTrees \cup DeepTrees \cup BrokenTrees

FeatureVals == {F(n) : n \in 0..MaxVal} \cup {NaN}

\* feature vectors of 1..NumFeatures entries
Features == UNION {[1..n -> FeatureVals] : n \in 1..NumFeatures}

\* forests built with Forest::new: leaf values small and at the edge of
\* exact addition, a base value that may be anything an f64 can be
BigLeaf == Pow2(SigBits)

ForestTrees ==
    {TreeNew(<<LeafNode(0, 1)>>, 0),
     TreeNew(<<LeafNode(0, BigLeaf)>>, 0),
     TreeNew(<<SplitNode(0, 0, 1, Some(1), Some(2)),
               LeafNode(1, 1), LeafNode(2, 2)>>, 0),
     TreeNew(<<SplitNode(0, 0, 1, Some(1), Some(7)), LeafNode(1, 1)>>, 0)}

BaseValues == {F(0), F(BigLeaf), NaN}

Forests ==
    {ForestNew(b, ts) :
        b \in BaseValues,
        ts \in UNION {[1..n -> ForestTrees] : n \in 0..MaxForestTrees}}

\* base_score strings: up to two brackets before, up to two after, and
\* between them pieces joined by commas; a piece is a literal (0.5, 1.0),
\* text that is no float, nothing, or a literal with a bracket inside
Pieces ==
    {<<Lit(F(5))>>, <<Lit(F(10))>>, <<Junk>>, <<>>, <<Lit(F(5)), LB, Lit(F(10))>>}

RECURSIVE JoinComma(_)
JoinComma(ps) ==
    IF Len(ps) = 1 THEN ps[1] ELSE ps[1] \o <<Comma>> \o JoinComma(Tail(ps))

Brackets(c) == {<<>>, <<c>>, <<c, c>>}

Strings ==
    {l \o JoinComma(ps) \o r :
        l \in Brackets(LB), r \in Brackets(RB),
        ps \in UNION {[1..n -> Pieces] : n \in 1..MaxPieces}}

\* XGBoost tree records.  The record at position t of a document is a
\* stump (t odd) or a single leaf (t even) whose values tell t.
XStump(t) ==
    [base_weights |-> <<F(7), F(7), F(7)>>,
     left_children |-> <<1, -1, -1>>,
     right_children |-> <<2, -1, -1>>,
     split_indices |-> <<0, 0, 0>>,
     split_conditions |-> <<F(1), F(t), F(t + 1)>>]

XLeaf(t) ==
    [base_weights |-> <<F(7)>>,
     left_children |-> <<-1>>,
     right_children |-> <<-1>>,
     split_indices |-> <<0>>,
     split_conditions |-> <<F(t)>>]

XGood(t) == IF t % 2 = 1 THEN XStump(t) ELSE XLeaf(t)

\* a record with no node, with a NaN value, with one array shorter than
\* the others
XDefects == {"empty", "nan", "short"}

XBad(t, d) ==
    CASE d = "empty" ->
            [base_weights |-> <<>>, left_children |-> <<>>,
             right_children |-> <<>>, split_indices |-> <<>>,
             split_conditions |-> <<>>]
      [] d = "nan" -> [XStump(t) EXCEPT !.split_conditions[3] = NaN]
      [] d = "short" -> [XStump(t) EXCEPT !.base_weights = <<F(7), F(7)>>]

\* the trees of a document: good records, at most one of them replaced by
\* a defective one
XTreeSeqs ==
    UNION {{[t \in 1..n |-> XGood(t)]} \cup
           {[t \in 1..n |-> IF t = p THEN XBad(t, d) ELSE XGood(t)] :
               p \in 1..n, d \in XDefects} : n \in 0..MaxTrees}

\* entries of a child array: the -1 of a leaf, zero, and the ids of nodes
XChildEntries == {-1, 0, 1, 2}

\* records of two nodes with every choice of child entries, next to the
\* records of the documents
XRecords ==
    {[base_weights |-> <<F(7), F(7)>>, left_children |-> l,
      right_children |-> r, split_indices |-> <<0, 0>>,
      split_conditions |-> <<F(1), F(2)>>] :
        l \in [1..2 -> XChildEntries], r \in [1..2 -> XChildEntries]}
    \cup {XGood(t) : t \in 1..2}
    \cup {XBad(1, d) : d \in XDefects}

TreeInfos == UNION {[1..n -> 0..MaxTag] : n \in 0..MaxTrees}

Gbtree(trees, tree_info) ==
    [name |-> "gbtree", model |-> [trees |-> trees, tree_info |-> tree_info]]

Gblinear == [name |-> "gblinear", model |-> [weights |-> <<F(1), F(2)>>]]

Dart(gbtree) == [name |-> "dart", gbtree |-> gbtree, weight_drop |-> <<F(1)>>]

Boosters ==
    {Gbtree(ts, ti) : ts \in XTreeSeqs, ti \in TreeInfos}
    \cup {Gblinear}
    \cup {Dart(Gbtree(<<>>, <<0>>)), Dart(Gbtree(<<XGood(1)>>, <<0>>))}

ObjectiveNames ==
    {"reg:squarederror", "binary:logistic", "multi:softmax", "multi:softprob",
     "binary:logitraw"}

\* "0.5", "[0.5,1.0]", "[0.5,1.0,2.0]", "invalid", "[0.5,invalid]"
BaseScores ==
    {<<Lit(F(5))>>,
     <<LB, Lit(F(5)), Comma, Lit(F(10)), RB>>,
     <<LB, Lit(F(5)), Comma, Lit(F(10)), Comma, Lit(F(20)), RB>>,
     <<Junk>>,
     <<LB, Lit(F(5)), Comma, Junk, RB>>}

XGBoostModelRecord(booster, objective, base_score) ==
    [learner |-> [gradient_booster |-> booster,
                  objective |-> [name |-> objective],
                  learner_model_param |-> [base_score |-> base_score]]]

\* LightGBM sections.  The section at position t of a file is a stump
\* (t odd) or a tree of two splits (t even) whose leaf values tell t; it is
\* good, or lacks directive d, or has a token that is no number in d.
DirectiveOrder ==
    <<"split_feature", "threshold", "left_child", "right_child", "leaf_value">>

SectionArrays(t) ==
    IF t % 2 = 1
    THEN [split_feature |-> <<IntTok(0)>>,
          threshold |-> <<FloatTok(F(1))>>,
          left_child |-> <<IntTok(-1)>>,
          right_child |-> <<IntTok(-2)>>,
          leaf_value |-> <<FloatTok(F(t)), FloatTok(F(t + 1))>>]
    ELSE [split_feature |-> <<IntTok(0), IntTok(1)>>,
          threshold |-> <<FloatTok(F(1)), FloatTok(F(2))>>,
          left_child |-> <<IntTok(1), IntTok(-2)>>,
          right_child |-> <<IntTok(-1), IntTok(-3)>>,
          leaf_value |-> <<FloatTok(F(t)), FloatTok(F(t + 1)), FloatTok(F(t + 2))>>]

\* a section is good, or lacks directive d, or has in d a token that is no
\* number, or has d's array one entry short, or has `nan` as d's first entry
SectionKinds == {"good", "missing", "bad", "short", "nan"}

Section(t, kind, d) ==
    LET arrays == SectionArrays(t)
        keep(key) == ~(kind = "missing" /\ key = d)
        keys == SelectSeq(DirectiveOrder, keep)
        value(key) ==
            IF key # d THEN arrays[key]
            ELSE CASE kind = "bad" -> Append(arrays[key], JunkTok)
                   [] kind = "short" -> SubSeq(arrays[key], 1, Len(arrays[key]) - 1)
                   [] kind = "nan" -> <<FloatTok(NaN)>> \o Tail(arrays[key])
                   [] OTHER -> arrays[key]
    IN  <<TreeLine, KV("num_leaves", <<IntTok(2)>>)>>
        \o [i \in 1..Len(keys) |-> KV(keys[i], value(keys[i]))]
        \o <<BlankLine>>

RECURSIVE Concat(_)
Concat(ss) == IF ss = <<>> THEN <<>> ELSE Head(ss) \o Concat(Tail(ss))

\* the header: with no num_tree_per_iteration, with a count, with a count
\* that is no number
Headers ==
    {<<KV("version", <<JunkTok>>)>>,
     <<KV("version", <<JunkTok>>), KV("num_tree_per_iteration", <<JunkTok>>)>>}
    \cup {<<KV("version", <<JunkTok>>),
            KV("num_tree_per_iteration", <<IntTok(n)>>), BlankLine>> :
          n \in 0..MaxPerIter}

\* a file: a header and up to MaxSections sections, of which those at the
\* positions in D have the defect `kind` in directive d
LgbmFiles ==
    {h \o Concat([t \in 1..n |->
                     Section(t, IF t \in D THEN kind ELSE "good", d)]) :
        h \in Headers, d \in Directives, kind \in SectionKinds \ {"good"},
        n \in 0..MaxSections, D \in SUBSET (1..MaxSections)}

(***************************************************************************)
(* The state machine.                                                      *)
(***************************************************************************)
Idle == [op |-> "idle"]
\* the caller holds no model, or the model an import returned
NoModel == None
Loaded(m) == Some(m)
TheModel == Unwrap(model)

Init == call = Idle /\ model = NoModel

\* a caller calls Tree::predict(x): tree.rs:52
TreePredictStart ==
    /\ call.op = "idle"
    /\ \E T \in Trees, x \in Features :
          LET e == PredictEnter(T)
          IN  call' = [op |-> "tree_predict", tree |-> T, x |-> x,
                       path |-> IF e.st = "ok" THEN <<Val(e).id>> ELSE <<>>,
                       node |-> IF e.st = "ok" THEN Some(Val(e)) ELSE None,
                       turns |-> 0,
                       out |-> IF e.st = "ok" THEN Running ELSE e]
    /\ UNCHANGED model

\* one turn of the loop of Tree::predict: tree.rs:53-64.  A walk that has
\* made more turns than the map has nodes is in a cycle; it goes on for
\* ever, and the model stops following it.
TreePredictStep ==
    /\ call.op = "tree_predict"
    /\ call.out.st = "run"
    /\ LET s == PredictIter(call.tree, call.x, Unwrap(call.node))
       IN  IF s.st = "go"
           THEN IF call.turns >= Len(call.tree.node_map)
                THEN call' = [call EXCEPT !.out = Hang]
                ELSE call' = [call EXCEPT !.node = Some(Val(s)),
                                          !.path = Append(@, Val(s).id),
                                          !.turns = @ + 1]
           ELSE call' = [call EXCEPT !.out = s]
    /\ UNCHANGED model

\* a caller calls Forest::predict(x): forest.rs:17-27
ForestPredictCall ==
    /\ call.op = "idle"
    /\ \E forest \in Forests, x \in Features :
          call' = [op |-> "forest_predict", forest |-> forest, x |-> x,
                   out |-> ForestPredict(forest, x)]
    /\ UNCHANGED model

\* a caller calls parse_base_score(s): xgboost.rs:259-265
ParseBaseScoreCall ==
    /\ call.op = "idle"
    /\ \E str \in Strings :
          call' = [op |-> "parse_base_score", s |-> str,
                   out |-> parse_base_score(str)]
    /\ UNCHANGED model

\* a caller calls TreeRecord::parse on a record: xgboost.rs:101-133
TreeRecordParseCall ==
    /\ call.op = "idle"
    /\ \E rec \in XRecords :
          call' = [op |-> "tree_record_parse", rec |-> rec,
                   out |-> TreeRecordParse(rec)]
    /\ UNCHANGED model

\* a caller calls parse_xgboost_model(record): xgboost.rs:192-252; the
\* model it returns is the caller's from then on
ImportXGBoost ==
    /\ call.op = "idle"
    /\ \E b \in Boosters, o \in ObjectiveNames, bs \in BaseScores :
          \E record \in {XGBoostModelRecord(b, o, bs)} :
          \E out \in {parse_xgboost_model(record)} :
              /\ call' = [op |-> "xgb_import", record |-> record, out |-> out]
              /\ model' = IF out.st = "ok" THEN Loaded(Val(out)) ELSE NoModel

\* an import has returned a model: its caller keeps the model and goes on
\* to the rows, test_utils.rs:51-56, examples/prediction.rs:37-43
ImportReturned ==
    /\ call.op \in {"xgb_import", "lgbm_import"}
    /\ model # NoModel
    /\ call' = [op |-> "loaded"]
    /\ UNCHANGED model

\* the caller of an import predicts a row with the model it got:
\* test_utils.rs:57-61, examples/prediction.rs:45-46
MultiPredictCall ==
    /\ call.op = "loaded"
    /\ \E x \in Features :
          call' = [op |-> "multi_predict", x |-> x,
                   out |-> MultiPredict(TheModel, x)]
    /\ UNCHANGED model

\* a caller calls read_lightgbm_model on a file with these lines:
\* lightgbm.rs:10-21
ImportLightGBM ==
    /\ call.op = "idle"
    /\ \E lines \in LgbmFiles :
          \E out \in {read_lightgbm_model(lines)} :
              /\ call' = [op |-> "lgbm_import", lines |-> lines, out |-> out]
              /\ model' = IF out.st = "ok" THEN Loaded(Val(out)) ELSE NoModel

Next ==
    \/ TreePredictStart
    \/ TreePredictStep
    \/ ForestPredictCall
    \/ ParseBaseScoreCall
    \/ TreeRecordParseCall
    \/ ImportXGBoost
    \/ ImportLightGBM
    \/ ImportReturned
    \/ MultiPredictCall

Spec == Init /\ [][Next]_vars

TreeNext == TreePredictStart \/ TreePredictStep

\* the loop of Tree::predict is sequential code: a turn that can be taken is
\* taken
TreeFairSpec == Init /\ [][TreeNext]_vars /\ WF_vars(TreePredictStep)

(***************************************************************************)
(* Well-formed trees and the feature vectors they can read (spec.md,       *)
(* section 3).                                                             *)
(***************************************************************************)
ChildIds(T, id) ==
    LET n == MapGet(T.node_map, id)
    IN  IF IsSome(n)
        THEN {c[1] : c \in {Unwrap(n).left, Unwrap(n).right} \ {None}}
        ELSE {}

RECURSIVE Descend(_, _, _)
Descend(T, S, k) ==
    IF k = 0 THEN S
    ELSE Descend(T, S \cup UNION {ChildIds(T, i) : i \in S}, k - 1)

\* the ids below id
Below(T, id) == Descend(T, ChildIds(T, id), Len(T.node_map))

WellFormed(T) ==
    /\ T.node_map # <<>>
    /\ T.root \in MapKeys(T.node_map)
    /\ \A i \in 1..Len(T.node_map) :
          LET n == T.node_map[i]
          IN  \/ n.left = None /\ n.right = None
              \/ /\ n.left # None /\ n.right # None
                 /\ {n.left[1], n.right[1]} \subseteq MapKeys(T.node_map)
    /\ \A id \in {T.root} \cup Below(T, T.root) : id \notin Below(T, id)

NoNaN(x) == \A i \in 1..Len(x) : x[i].k # "nan"

\* x has an entry for every feature the tree splits on
Covers(T, x) ==
    \A i \in 1..Len(T.node_map) :
        is_leaf(T.node_map[i]) \/ T.node_map[i].split_index < Len(x)

ValidTreeCall ==
    IF call.op = "tree_predict"
    THEN WellFormed(call.tree) /\ NoNaN(call.x) /\ Covers(call.tree, call.x)
    ELSE FALSE

NodeOf(T, id) == Unwrap(MapGet(T.node_map, id))

\* C1: on a well-formed tree and a vector without NaN, Tree.predict starts
\* at the root, at each non-leaf node goes to the left child exactly when
\* features[split_feature_index] < split_threshold and to the right child
\* otherwise (equality goes right), and returns the leaf_value of the leaf
\* it ends on.
C1_PredictFollowsSplits ==
    ValidTreeCall =>
        LET T == call.tree
            p == call.path
        IN  /\ Len(p) >= 1 /\ p[1] = T.root
            /\ \A i \in 1..(Len(p) - 1) :
                  LET n == NodeOf(T, p[i])
                      xv == call.x[n.split_index + 1].v
                  IN  /\ n.left # None /\ n.right # None
                      /\ (xv < n.split_condition.v) => p[i + 1] = n.left[1]
                      /\ (xv >= n.split_condition.v) => p[i + 1] = n.right[1]
            /\ call.out.st \in {"run", "ok"}
            /\ call.out.st = "ok" =>
                  LET last == NodeOf(T, p[Len(p)])
                  IN  /\ last.left = None /\ last.right = None
                      /\ Val(call.out) = last.value

\* a walk of two splits has returned, and went right on an equality
C1_Witness ==
    /\ ValidTreeCall
    /\ call.out.st = "ok"
    /\ Len(call.path) = 3
    /\ \E i \in 1..2 :
          LET n == NodeOf(call.tree, call.path[i])
          IN  /\ call.x[n.split_index + 1] = n.split_condition
              /\ call.path[i + 1] = n.right[1]

LeafValues(T) ==
    {T.node_map[i].value : i \in {j \in 1..Len(T.node_map) :
        T.node_map[j].left = None /\ T.node_map[j].right = None}}

\* a call on a valid tree has returned the leaf_value of a leaf of the tree
C4_Returned ==
    IF ValidTreeCall
    THEN IF call.out.st = "ok"
         THEN Val(call.out) \in LeafValues(call.tree)
         ELSE FALSE
    ELSE FALSE

\* C4: for every valid tree (non-empty, every child id present in the map,
\* acyclic from the root) and every feature vector without NaN, predict
\* terminates and returns the leaf_value of some leaf node stored in the
\* tree.
C4_PredictTerminates == ValidTreeCall ~> C4_Returned

\* a call on a valid tree has returned after two turns of the loop
C4_Witness ==
    /\ ValidTreeCall
    /\ call.out.st = "ok"
    /\ call.turns = 2
    /\ Val(call.out) \in LeafValues(call.tree)

\* the sum of the first n entries of s, taken from the first to the n-th
RECURSIVE SumUpTo(_, _)
SumUpTo(s, n) == IF n = 0 THEN F(0) ELSE FAdd(SumUpTo(s, n - 1), s[n])

\* the call is on a forest of the data model (a base value that is a
\* number) whose every tree returns a value on x
ValidForestCall ==
    IF call.op = "forest_predict"
    THEN /\ call.forest.base_value.k # "nan"
         /\ \A i \in 1..Len(call.forest.trees) :
               TreePredict(call.forest.trees[i], call.x).st = "ok"
    ELSE FALSE

\* C2: Forest.predict(x) equals base_value plus the sum of tree.predict(x)
\* over all trees of the forest accumulated in sequence order; for a forest
\* with no trees it equals base_value.
C2_ForestPredictIsBasePlusSum ==
    ValidForestCall =>
        LET ts == call.forest.trees
            ps == [i \in 1..Len(ts) |-> Val(TreePredict(ts[i], call.x))]
        IN  /\ call.out.st = "ok"
            /\ Val(call.out) = FAdd(call.forest.base_value, SumUpTo(ps, Len(ps)))
            /\ ts = <<>> => Val(call.out) = call.forest.base_value

\* a forest of three trees has returned a sum that depends on the order of
\* the additions: adding the trees onto the base one by one gives another
C2_Witness ==
    /\ ValidForestCall
    /\ Len(call.forest.trees) = 3
    /\ call.out.st = "ok"
    /\ LET ts == call.forest.trees
           ps == [i \in 1..Len(ts) |-> Val(TreePredict(ts[i], call.x))]
       IN  /\ Val(call.out) # FAdd(FAdd(FAdd(call.forest.base_value, ps[1]), ps[2]), ps[3])
           /\ Val(call.out) # FAdd(call.forest.base_value,
                                   FAdd(FAdd(ps[3], ps[2]), ps[1]))

(***************************************************************************)
(* The XGBoost importer: claims.                                           *)
(***************************************************************************)
XgbCall == call.op = "xgb_import"
XgbBooster == call.record.learner.gradient_booster
XgbObjective == call.record.learner.objective.name
XgbBaseScore == call.record.learner.learner_model_param.base_score

\* C6: parse_xgboost_model on a document whose gradient_booster is not the
\* tree-ensemble variant (gblinear, or dart even when it wraps a gbtree)
\* returns an UnsupportedBooster error that names the variant met and
\* mentions 'gbtree', and returns no model.
C6_UnsupportedBooster ==
    (XgbCall /\ XgbBooster.name # "gbtree") =>
        /\ call.out.st = "err"
        /\ ErrOf(call.out).kind = "UnsupportedBooster"
        /\ ErrOf(call.out).booster = XgbBooster.name
        /\ Contains(ErrorMessage(ErrOf(call.out)), XgbBooster.name)
        /\ Contains(ErrorMessage(ErrOf(call.out)), "gbtree")
        /\ call.out.v = <<>>
        /\ model = NoModel

\* a dart booster that wraps a gbtree with a tree was refused
C6_Witness ==
    /\ XgbCall
    /\ XgbBooster.name = "dart"
    /\ XgbBooster.gbtree.name = "gbtree"
    /\ XgbBooster.gbtree.model.trees # <<>>
    /\ call.out.st = "err"

FourObjectives ==
    {"reg:squarederror", "binary:logistic", "multi:softmax", "multi:softprob"}

\* C7: parse_xgboost_model on a tree-ensemble document whose objective name
\* is not one of reg:squarederror, binary:logistic, multi:softmax,
\* multi:softprob returns an UnsupportedObjective error carrying that name
\* and the list of exactly these four names, and returns no model.
C7_UnsupportedObjective ==
    (XgbCall /\ XgbBooster.name = "gbtree" /\ XgbObjective \notin FourObjectives) =>
        /\ call.out.st = "err"
        /\ ErrOf(call.out).kind = "UnsupportedObjective"
        /\ ErrOf(call.out).objective = XgbObjective
        /\ Len(ErrOf(call.out).supported) = 4
        /\ {ErrOf(call.out).supported[i] : i \in 1..4} = FourObjectives
        /\ model = NoModel

\* the literals of a string, in order
LitsOf(s) ==
    LET isLit(c) == c.c = "lit"
        lits == SelectSeq(s, isLit)
    IN  [i \in 1..Len(lits) |-> lits[i].f]

LitSeq(fs) == [i \in 1..Len(fs) |-> Lit(fs[i])]

\* s is a single float, or a bracketed comma-separated list of floats
IsFloatList(s) ==
    LET fs == LitsOf(s)
    IN  /\ fs # <<>>
        /\ \/ s = <<Lit(fs[1])>>
           \/ s = <<LB>> \o JoinComma([i \in 1..Len(fs) |-> <<Lit(fs[i])>>]) \o <<RB>>

\* an element of s, between the commas and inside the outer brackets, is
\* no float
SomeElementFails(s) ==
    \E i \in 1..Len(SplitComma(TrimMatches(s))) :
        ParseF64(SplitComma(TrimMatches(s))[i]).st # "ok"

\* the document reaches the parse of its base score
ReachesBaseScore ==
    /\ XgbCall
    /\ XgbBooster.name = "gbtree"
    /\ XgbObjective \in FourObjectives
    /\ GbtreeParse(XgbBooster.model).st = "ok"
    /\ XgbBooster.model.tree_info # <<>>

\* C8: parse_base_score on a single float or a bracketed comma-separated
\* list of floats returns those floats in order; if any element fails to
\* parse, the whole parse fails and the error (which parse_xgboost_model
\* returns as InvalidBaseScore) carries the entire raw base_score string,
\* with no value returned.
C8_ParseBaseScore ==
    /\ call.op = "parse_base_score" =>
          /\ IsFloatList(call.s) =>
                call.out.st = "ok" /\ Val(call.out) = LitsOf(call.s)
          /\ SomeElementFails(call.s) =>
                /\ call.out.st = "err"
                /\ ErrOf(call.out) = call.s
                /\ call.out.v = <<>>
    /\ (ReachesBaseScore /\ SomeElementFails(XgbBaseScore)) =>
          /\ call.out.st = "err"
          /\ ErrOf(call.out).kind = "InvalidBaseScore"
          /\ ErrOf(call.out).value = XgbBaseScore
          /\ model = NoModel

\* the importer met a list whose first element is a float and whose second
\* is not, and returned the error
C8_Witness ==
    /\ ReachesBaseScore
    /\ Len(XgbBaseScore) > 3
    /\ ParseF64(SplitComma(TrimMatches(XgbBaseScore))[1]).st = "ok"
    /\ SomeElementFails(XgbBaseScore)
    /\ call.out.st = "err"

\* the tags of the trees that the document has, MAX + 1
NClasses(tree_info) ==
    1 + CHOOSE m \in {tree_info[i] : i \in 1..Len(tree_info)} :
            \A i \in 1..Len(tree_info) : tree_info[i] <= m

\* the places of forest k's trees among the trees of the document
RECURSIVE PlacesOf(_, _, _)
PlacesOf(tree_info, k, n) ==
    IF n = 0 THEN <<>>
    ELSE IF n <= Len(tree_info) /\ tree_info[n] = k
         THEN Append(PlacesOf(tree_info, k, n - 1), n)
         ELSE PlacesOf(tree_info, k, n - 1)

\* C9: a successful Format A import returns exactly n_classes =
\* max(tree_info) + 1 forests, where forest k holds exactly the input trees
\* whose tree_info tag is k, in their original relative order, so that every
\* input tree appears in exactly one forest.
C9_GroupedByTag ==
    (XgbCall /\ call.out.st = "ok") =>
        LET gb == XgbBooster.model
            trees == [i \in 1..Len(gb.trees) |-> Val(TreeRecordParse(gb.trees[i]))]
        IN  /\ model # NoModel
            /\ Len(TheModel) = NClasses(gb.tree_info)
            /\ \A k \in 1..Len(TheModel) :
                  LET at == PlacesOf(gb.tree_info, k - 1, Len(trees))
                  IN  TheModel[k].trees = [j \in 1..Len(at) |-> trees[at[j]]]
            /\ \A i \in 1..Len(trees) :
                  Cardinality({k \in 1..Len(TheModel) :
                      \E j \in 1..Len(TheModel[k].trees) :
                          PlacesOf(gb.tree_info, k - 1, Len(trees))[j] = i}) = 1

(***************************************************************************)
(* MultiOutputForest.predict (spec.md: map forest.predict over the ordered *)
(* forest sequence).                                                       *)
(***************************************************************************)
MultiCall == call.op = "multi_predict"

\* C3: a MultiOutputForest.predict(x) that returns gives a vector with exactly
\* one entry per forest, and entry k is what the k-th forest's predict(x)
\* returns.
C3_OneEntryPerForest ==
    (MultiCall /\ call.out.st = "ok") =>
        /\ Len(Val(call.out)) = Len(TheModel)
        /\ \A k \in 1..Len(TheModel) :
              /\ ForestPredict(TheModel[k], call.x).st = "ok"
              /\ Val(call.out)[k] = Val(ForestPredict(TheModel[k], call.x))

\* a model of two forests or more whose first and last forest give different
\* values for the row
C3_Witness ==
    /\ MultiCall
    /\ call.out.st = "ok"
    /\ Len(TheModel) >= 2
    /\ Val(call.out)[1] # Val(call.out)[Len(TheModel)]
    /\ Val(call.out)[1] = Val(ForestPredict(TheModel[1], call.x))

(***************************************************************************)
(* The LightGBM importer read from the file: its Tree= sections, what each *)
(* of them holds, and the count the header gives.                          *)
(***************************************************************************)
LgbmCall == call.op = "lgbm_import"

\* the line numbers of the Tree= headers, in file order
TreeLineIdx(lines) ==
    LET RECURSIVE from(_)
        from(k) == IF k > Len(lines) THEN <<>>
                   ELSE IF lines[k].t = "tree" THEN <<k>> \o from(k + 1)
                   ELSE from(k + 1)
    IN  from(1)

\* the lines of the section whose header is line idx: up to the next blank
\* line or Tree= header
SectionBody(lines, idx) ==
    LET stop == Min({k \in (idx + 1)..Len(lines) : lines[k].t \in {"blank", "tree"}}
                    \cup {Len(lines) + 1})
    IN  {k \in (idx + 1)..(stop - 1) : lines[k].t = "kv"}

LacksDirective(lines, idx) ==
    \E d \in Directives : \A k \in SectionBody(lines, idx) : lines[k].key # d

HasBadElement(lines, idx) ==
    \E k \in SectionBody(lines, idx) :
        /\ lines[k].key \in Directives
        /\ ParseArray(lines[k].val, lines[k].key) = None

Defective(lines, idx) == LacksDirective(lines, idx) \/ HasBadElement(lines, idx)

\* C5: an import of a LightGBM file in which a Tree= section lacks one of the
\* five directives, or has an element that does not parse in one of the five
\* arrays, fails with an error and returns no model.
C5_DefectiveSectionFails ==
    (LgbmCall /\ \E p \in 1..Len(TreeLineIdx(call.lines)) :
                    Defective(call.lines, TreeLineIdx(call.lines)[p]))
        => (call.out.st = "err" /\ model = NoModel)

\* the count of the header's num_tree_per_iteration line
HeaderCount(lines) ==
    LET at == {k \in 1..Len(lines) :
                  lines[k].t = "kv" /\ lines[k].key = "num_tree_per_iteration"}
    IN  lines[Min(at)].val[1].n

\* C10: a successful import of a LightGBM file with num_tree_per_iteration = n
\* returns exactly n forests, and the record of the Tree= section at 0-based
\* position i*n + j (0 <= j < n) is the i-th tree of forest j.
C10_GroupedByPosition ==
    (LgbmCall /\ call.out.st = "ok") =>
        LET n == HeaderCount(call.lines)
            at == TreeLineIdx(call.lines)
        IN  /\ Len(TheModel) = n
            /\ \A p \in 0..(Len(at) - 1) :
                  LET record == parse_tree_section(call.lines, at[p + 1])
                      i == p \div n
                      j == p % n
                  IN  record # None =>
                        /\ Len(TheModel[j + 1].trees) > i
                        /\ TheModel[j + 1].trees[i + 1]
                              = Val(TreeFromRecord(Unwrap(record)))

(***************************************************************************)
(* The header's count (spec.md, section 4, Format B).                      *)
(***************************************************************************)
HasCountLine(lines) ==
    \E k \in 1..Len(lines) :
        lines[k].t = "kv" /\ lines[k].key = "num_tree_per_iteration"

\* C11: an import of a LightGBM file that has no num_tree_per_iteration line
\* fails with an error and returns no model, whatever Tree= sections the file
\* has.
C11_MissingCountFails ==
    (LgbmCall /\ ~HasCountLine(call.lines)) =>
        (call.out.st = "err" /\ call.out.v = <<>> /\ model = NoModel)

\* a file without the count line whose first section is complete was refused
C11_Witness ==
    /\ LgbmCall
    /\ ~HasCountLine(call.lines)
    /\ Len(TreeLineIdx(call.lines)) >= 1
    /\ ~Defective(call.lines, TreeLineIdx(call.lines)[1])
    /\ call.out.st = "err"

(***************************************************************************)
(* Base values of a Format A import (spec.md, section 4, Format A).        *)
(***************************************************************************)
\* the floats of the document's base_score, as parsed
ParsedScores == LitsOf(XgbBaseScore)

\* the parsed score that forest k's base value comes from
ScoreOf(k) == IF Len(ParsedScores) = 1 THEN ParsedScores[1] ELSE ParsedScores[k]

\* C12: in a successful Format A import where exactly one base value was
\* parsed and the grouping gave n_classes > 1, there are n_classes forests and
\* every one of them has that single base value (as the objective hands it
\* on).
C12_BroadcastSingleBase ==
    (/\ XgbCall
     /\ call.out.st = "ok"
     /\ Len(ParsedScores) = 1
     /\ NClasses(XgbBooster.model.tree_info) > 1) =>
        /\ Len(TheModel) = NClasses(XgbBooster.model.tree_info)
        /\ \A k \in 1..Len(TheModel) :
              /\ TheModel[k].base_value = TheModel[1].base_value
              /\ TheModel[k].base_value =
                    IF XgbObjective = "binary:logistic"
                    THEN logit(ParsedScores[1]) ELSE ParsedScores[1]

\* one base value was given to three classes
C12_Witness ==
    /\ XgbCall
    /\ call.out.st = "ok"
    /\ Len(ParsedScores) = 1
    /\ NClasses(XgbBooster.model.tree_info) = 3
    /\ Len(TheModel) = 3
    /\ TheModel[3].base_value = ParsedScores[1]

\* C13: in a successful Format A import each parsed base-score value goes
\* through logit before it is a forest's base value if and only if the
\* objective is binary:logistic; for reg:squarederror, multi:softmax and
\* multi:softprob the parsed value is used unchanged.
C13_LogitIffBinaryLogistic ==
    (XgbCall /\ call.out.st = "ok") =>
        \A k \in 1..Len(TheModel) :
            /\ XgbObjective = "binary:logistic" =>
                  /\ TheModel[k].base_value = logit(ScoreOf(k))
                  /\ TheModel[k].base_value # ScoreOf(k)
            /\ XgbObjective \in {"reg:squarederror", "multi:softmax", "multi:softprob"} =>
                  /\ TheModel[k].base_value = ScoreOf(k)
                  /\ TheModel[k].base_value # logit(ScoreOf(k))

\* a binary:logistic document with a list of two scores gave two forests
\* whose base values are the logits
C13_Witness ==
    /\ XgbCall
    /\ call.out.st = "ok"
    /\ XgbObjective = "binary:logistic"
    /\ Len(ParsedScores) = 2
    /\ Len(TheModel) = 2
    /\ TheModel[2].base_value = logit(ParsedScores[2])

(***************************************************************************)
(* Failures during a walk (spec.md, section 3 and section 6).              *)
(***************************************************************************)
\* the call has ended at a node that is no leaf: the turn taken there did
\* not reach a next node
EndedAtSplit ==
    IF call.op = "tree_predict"
    THEN /\ call.node # None
         /\ ~is_leaf(Unwrap(call.node))
         /\ call.out.st \notin {"run", "hang"}
    ELSE FALSE

\* the feature read at that node is NaN
ReadNaNAtSplit ==
    /\ EndedAtSplit
    /\ Unwrap(call.node).split_index < Len(call.x)
    /\ call.x[Unwrap(call.node).split_index + 1].k = "nan"

\* the feature read at that node is a number, and the child it selects is
\* absent or no key of the node map
DanglingAtSplit ==
    /\ EndedAtSplit
    /\ Unwrap(call.node).split_index < Len(call.x)
    /\ call.x[Unwrap(call.node).split_index + 1].k # "nan"
    /\ LET n == Unwrap(call.node)
           xv == call.x[n.split_index + 1]
           child == IF FLt(xv, n.split_condition) THEN n.left ELSE n.right
       IN  \/ child = None
           \/ child[1] \notin MapKeys(call.tree.node_map)

\* C14: Tree.predict reports a NaN feature read at a split as an 'invalid
\* input' failure and a selected child that is absent or no key of the node
\* map as a 'corrupt model' failure, two outcomes that can be told apart; a
\* NaN feature never makes the walk take a branch.
C14_TraversalFailuresTold ==
    /\ ReadNaNAtSplit =>
          /\ call.out.st = "err"
          /\ ErrOf(call.out).kind = "invalid input"
          /\ call.path[Len(call.path)] = Unwrap(call.node).id
    /\ DanglingAtSplit =>
          /\ call.out.st = "err"
          /\ ErrOf(call.out).kind = "corrupt model"

(***************************************************************************)
(* Failed imports (spec.md, section 6).                                    *)
(***************************************************************************)
ImportCall == call.op \in {"xgb_import", "lgbm_import"}

\* C15: every import call (Format A or Format B) that fails on malformed
\* input -- an empty tree_info, a tree without nodes, a NaN threshold or
\* value, child arrays shorter than split_feature, num_tree_per_iteration = 0
\* -- ends by returning an error value to its caller and does not abort.
C15_FailedImportReturnsError ==
    (ImportCall /\ call.out.st # "ok") =>
        (call.out.st = "err" /\ call.out.e # <<>>)

(***************************************************************************)
(* Callers that predict at the same time on one model (spec.md, section    *)
(* 5).  A caller's predict is a thread of its own: its row, the forest and *)
(* the tree it is at, the `node` of Tree::predict's loop, the predictions  *)
(* Forest::predict has collected and the values returned so far are its    *)
(* locals; the model is what the threads share.  A step of the behaviour   *)
(* is one turn of one thread.                                              *)
(***************************************************************************)
NewThread(x) ==
    [x |-> x, k |-> 1, t |-> 1, node |-> None, turns |-> 0,
     predictions |-> <<>>, results |-> <<>>, out |-> Running]

\* a predict that counts its calls in the base value of the forest it is at
SharedCountsCalls(m, th) ==
    IF th.k <= Len(m)
    THEN [m EXCEPT ![th.k].base_value = FAdd(@, F(1))]
    ELSE m

\* tree.rs:51, forest.rs:17: predict borrows the model as &self and assigns
\* to nothing but its locals, so a turn leaves the model as it is
SharedAfterTurn(m, th) == m

\* one turn of thread th on the model m: the turn of Tree::predict's loop
\* (tree.rs:52-64), the next tree of Forest::predict (forest.rs:18-22), or
\* the sum that ends a forest (forest.rs:24-26) and leads to the next one
ThreadTurn(m, th) ==
    IF th.k > Len(m) THEN [th EXCEPT !.out = Ok(th.results)]
    ELSE LET forest == m[th.k]
         IN  IF th.t > Len(forest.trees)
             THEN LET res == NotNanNew(AddBase(forest.base_value, th.predictions))
                  IN  IF res.st # "ok" THEN [th EXCEPT !.out = res]
                      ELSE [th EXCEPT !.results = Append(@, Val(res)),
                                      !.k = @ + 1, !.t = 1,
                                      !.predictions = <<>>]
             ELSE LET tree == forest.trees[th.t]
                  IN  IF th.node = None
                      THEN LET e == PredictEnter(tree)
                           IN  IF e.st # "ok" THEN [th EXCEPT !.out = e]
                               ELSE [th EXCEPT !.node = Some(Val(e)),
                                               !.turns = 0]
                      ELSE LET s == PredictIter(tree, th.x, Unwrap(th.node))
                           IN  IF s.st = "go"
                               THEN IF th.turns >= Len(tree.node_map)
                                    THEN [th EXCEPT !.out = Hang]
                                    ELSE [th EXCEPT !.node = Some(Val(s)),
                                                    !.turns = @ + 1]
                               ELSE IF s.st = "ok"
                               THEN [th EXCEPT !.predictions = Append(@, Val(s)),
                                               !.t = @ + 1, !.node = None]
                               ELSE [th EXCEPT !.out = s]

\* rows of one feature: below the threshold of the trees, above it, NaN
ConcRows == {<<F(0)>>, <<F(MaxVal)>>, <<NaN>>}

\* models of one forest with two trees, and of two forests with one tree
ConcModels ==
    {MultiNew(<<ForestNew(F(0), <<t1, t2>>)>>) :
        t1 \in ForestTrees, t2 \in ForestTrees}
    \cup
    {MultiNew(<<ForestNew(F(0), <<t1>>), ForestNew(F(BigLeaf), <<t2>>)>>) :
        t1 \in ForestTrees, t2 \in ForestTrees}

\* NumThreads callers call predict on the model they share
ConcStart ==
    /\ call.op = "idle"
    /\ \E m \in ConcModels, xs \in [1..NumThreads -> ConcRows] :
          /\ model' = Loaded(m)
          /\ call' = [op |-> "concurrent",
                      threads |-> [i \in 1..NumThreads |-> NewThread(xs[i])]]

\* one of the threads that has not ended takes its next turn
ConcTurn ==
    /\ call.op = "concurrent"
    /\ \E i \in 1..NumThreads :
          /\ call.threads[i].out.st = "run"
          /\ call' = [call EXCEPT !.threads[i] = ThreadTurn(TheModel, @)]
          /\ model' = Loaded(SharedAfterTurn(TheModel, call.threads[i]))

ConcNext == ConcStart \/ ConcTurn

ConcSpec == Init /\ [][ConcNext]_vars

ConcCall == call.op = "concurrent"

\* what thread th has got so far is what its call, run alone on the model,
\* gives: a value per forest in order, and at its end all values or the
\* outcome of the first forest that does not return
AsAlone(th) ==
    /\ Len(th.results) <= Len(TheModel)
    /\ \A k \in 1..Len(th.results) :
          /\ ForestPredict(TheModel[k], th.x).st = "ok"
          /\ th.results[k] = Val(ForestPredict(TheModel[k], th.x))
    /\ th.out.st = "ok" =>
          (Len(th.results) = Len(TheModel) /\ Val(th.out) = th.results)
    /\ th.out.st \notin {"ok", "run"} =>
          /\ Len(th.results) < Len(TheModel)
          /\ th.out = ForestPredict(TheModel[Len(th.results) + 1], th.x)

\* C16: predict on a Tree, a Forest or a MultiOutputForest leaves the model
\* unchanged, so in every interleaving of predict calls that run at the same
\* time on one model each call returns what it returns when run alone.
C16_ConcurrentPredict ==
    /\ [](ConcCall => \A i \in 1..NumThreads : AsAlone(call.threads[i]))
    /\ [][ConcCall => model' = model]_vars

\* two calls with different rows are both under way: each has taken a turn
\* and neither has ended
C16_Witness ==
    /\ ConcCall
    /\ call.threads[1].x # call.threads[2].x
    /\ \A i \in 1..2 :
          /\ call.threads[i].out.st = "run"
          /\ call.threads[i].node # None \/ call.threads[i].predictions # <<>>
    /\ call.threads[1].predictions # <<>>

TreeRecordCall == call.op = "tree_record_parse"

\* the positions izip! goes through: those that all five arrays have
ZippedLen(rec) ==
    SeqMin(<<Len(rec.base_weights), Len(rec.left_children),
             Len(rec.right_children), Len(rec.split_indices),
             Len(rec.split_conditions)>>)

\* the child reference that the entry c stands for
EntryAsChild(c) == IF c > 0 THEN <<c>> ELSE <<>>

\* C17: in Format A per-tree parsing the node at array position i gets id
\* i, and its left (right) child reference is present and equal to
\* left_children[i] (right_children[i]) exactly when that entry is above
\* zero, and absent otherwise: zero and negative entries both mean no child.
C17_ChildEntries ==
    (TreeRecordCall /\ call.out.st = "ok") =>
        LET rec == call.rec
            nm == Val(call.out).node_map
        IN  /\ Len(nm) = ZippedLen(rec)
            /\ \A i \in 0..(Len(nm) - 1) :
                  /\ nm[i + 1].id = i
                  /\ nm[i + 1].left = EntryAsChild(rec.left_children[i + 1])
                  /\ nm[i + 1].right = EntryAsChild(rec.right_children[i + 1])

\* a record with an entry of zero, a negative entry and an entry above zero
\* has been parsed
C17_Witness ==
    /\ TreeRecordCall
    /\ call.out.st = "ok"
    /\ \E i \in 1..ZippedLen(call.rec) : call.rec.left_children[i] = 0
    /\ \E i \in 1..ZippedLen(call.rec) : call.rec.right_children[i] < 0
    /\ \E i \in 1..ZippedLen(call.rec) : call.rec.left_children[i] > 0

\* the node id that the child reference c of a section stands for
ResolvedId(c, N) == IF c >= 0 THEN c ELSE N + (-c - 1)

\* the tree T is the assembly of the section record rec
AssembledFrom(T, rec) ==
    LET N == Len(rec.split_features)
        nm == T.node_map
    IN  /\ Len(nm) = N + Len(rec.leaf_values)
        /\ \A i \in 0..(N - 1) :
              /\ nm[i + 1].id = i
              /\ nm[i + 1].left = <<ResolvedId(rec.left_children[i + 1], N)>>
              /\ nm[i + 1].right = <<ResolvedId(rec.right_children[i + 1], N)>>
        /\ \A j \in 0..(Len(rec.leaf_values) - 1) :
              /\ nm[N + j + 1].id = N + j
              /\ nm[N + j + 1].left = <<>>
              /\ nm[N + j + 1].right = <<>>
              /\ nm[N + j + 1].value = rec.leaf_values[j + 1]

\* C18: in Format B node assembly with N = split_feature.len(), internal
\* node i gets id i, each of its child references c resolves to id c when
\* c >= 0 and to id N + (-c - 1) when c < 0, and the j-th leaf_value entry
\* becomes a childless node with id N + j that carries that value.
C18_NodeAssembly ==
    (LgbmCall /\ call.out.st = "ok") =>
        \A groups \in {Val(read_lightgbm_txt(call.lines))} :
            \A k \in 1..Len(groups) :
                \A t \in 1..Len(groups[k]) :
                    AssembledFrom(TheModel[k].trees[t], groups[k][t])

\* a section of two internal nodes, with a child reference to an internal
\* node and child references to leaves, has been assembled
C18_Witness ==
    /\ LgbmCall
    /\ call.out.st = "ok"
    /\ \E k \in 1..Len(TheModel) :
          \E t \in 1..Len(TheModel[k].trees) :
              LET nm == TheModel[k].trees[t].node_map
              IN  /\ Len(nm) = 5
                  /\ nm[1].left = <<1>>
                  /\ nm[1].right = <<2>>
                  /\ nm[2].right = <<4>>

\* the ids that are keys of the node map of T
KeysOf(T) == {T.node_map[i].id : i \in 1..Len(T.node_map)}

\* T has a node, its root is the smallest id, and each node has no child
\* reference or two that are both keys of the node map
ProperTree(T) ==
    /\ T.node_map # <<>>
    /\ \A id \in KeysOf(T) : T.root <= id
    /\ T.root \in KeysOf(T)
    /\ \A i \in 1..Len(T.node_map) :
          LET node == T.node_map[i]
          IN  \/ node.left = None /\ node.right = None
              \/ /\ node.left # None /\ node.right # None
                 /\ Unwrap(node.left) \in KeysOf(T)
                 /\ Unwrap(node.right) \in KeysOf(T)

\* C19: every Tree returned by a successful import (Format A or Format B) is
\* well formed: its node map is non-empty, its root is the node with the
\* smallest id, and every node has either no child reference or two child
\* references that are both keys of the tree's node map.
C19_ImportedTreesWellFormed ==
    (ImportCall /\ call.out.st = "ok") =>
        \A k \in 1..Len(TheModel) :
            \A t \in 1..Len(TheModel[k].trees) :
                ProperTree(TheModel[k].trees[t])

====
